---- MODULE Spec2Model ----
(***************************************************************************)
(* Model of embedly/client.py: the Embedly client.                         *)
(*                                                                         *)
(* Two parts of one client instance are modelled:                          *)
(*   - the service registry: get_services, the regex property and          *)
(*     is_supported, with the cached provider list and compiled pattern;   *)
(*   - the request dispatcher: _get behind oembed, preview, objectify and  *)
(*     extract.                                                            *)
(* Python values are modelled as follows.  A str is a TLA+ string; the     *)
(* strings matched by regular expressions are sequences of one-character   *)
(* strings.  None is the string None.  A dict is a record that carries the *)
(* keys it holds, in insertion order.  An exception leaves the call with   *)
(* exc set to its type.                                                    *)
(***************************************************************************)
EXTENDS Integers, Sequences, FiniteSets, TLC

VARIABLES
    key,        \* self.key
    services,   \* self.services
    _regex,     \* self._regex
    requests,   \* number of HTTP requests made to the services end point
    loaded,     \* a services response with status 200 has been received
    pc,         \* position of the caller: "idle" or "returned"
    op,         \* the operation last called
    args,       \* its arguments
    sent,       \* the HTTP requests made by that call, in order
    resp,       \* the HTTP response that call received, if any
    ret,        \* the value it returned
    exc         \* the exception it raised (NoExc when it returned)

vars == <<key, services, _regex, requests, loaded, pc, op, args, sent, resp, ret, exc>>

----------------------------------------------------------------------------
(* Bounds *)

\* longest url given to is_supported
MaxUrlLen == 3

\* longest provider list in a services response
MaxProviders == 2

\* cap on the counter of services requests
MaxRequests == 3

\* the length of a response array is within Slack of the number of urls
Slack == 1

----------------------------------------------------------------------------
(* Python values *)

None == "<None>"

\* bool(x) for a str or None
Truthy(x) == x # None /\ x # ""

Min(a, b) == IF a < b THEN a ELSE b

NoReturn == [kind |-> "none", v |-> <<>>]
NoResponse == [status |-> "", content |-> <<>>]
NoArgs == [none |-> TRUE]
NoExc == [type |-> "", msg |-> ""]
Raise(type, msg) == [type |-> type, msg |-> msg]

----------------------------------------------------------------------------
(* Regular expressions over the alphabet of the modelled urls *)

Alphabet == {"a", "b"}

RECURSIVE Join(_, _)
\* sep.join(strs) on sequences of characters
Join(sep, strs) ==
    IF Len(strs) = 0 THEN <<>>
    ELSE IF Len(strs) = 1 THEN strs[1]
    ELSE strs[1] \o <<sep>> \o Join(sep, Tail(strs))

RECURSIVE Alternatives(_)
\* the branches of the alternation p, in order: p split at every "|"
Alternatives(p) ==
    IF \E i \in 1..Len(p) : p[i] = "|"
    THEN LET i == CHOOSE j \in 1..Len(p) :
                      p[j] = "|" /\ \A k \in 1..(j - 1) : p[k] # "|"
         IN  <<SubSeq(p, 1, i - 1)>> \o Alternatives(SubSeq(p, i + 1, Len(p)))
    ELSE <<p>>

\* the literal lit occurs in s at position i (1-based)
MatchesAt(lit, s, i) ==
    /\ i + Len(lit) - 1 <= Len(s)
    /\ \A k \in 1..Len(lit) : s[i + k - 1] = lit[k]

\* re.compile(p)
Compile(p) == [set |-> TRUE, pattern |-> p]

Unset == [set |-> FALSE, pattern |-> <<>>]

\* compiled.match(s) is not None: some branch matches at the start of s
Match(compiled, s) ==
    LET alts == Alternatives(compiled.pattern)
    IN  \E a \in 1..Len(alts) : MatchesAt(alts[a], s, 1)

----------------------------------------------------------------------------
(* Service registry *)

StatusCodes == {"200", "404", "500"}

\* provider objects of a services response
ProviderPool ==
    { [has_regex |-> FALSE, regex |-> <<>>],
      [has_regex |-> TRUE,  regex |-> <<>>],
      [has_regex |-> TRUE,  regex |-> << <<"a", "b">> >>],
      [has_regex |-> TRUE,  regex |-> << <<"b">>, <<"a", "b">> >>] }

\* bodies of a services response: arrays of provider objects
ServiceBodies == UNION { [1..n -> ProviderPool] : n \in 0..MaxProviders }

\* urls given to is_supported
Urls == UNION { [1..n -> Alphabet] : n \in 0..MaxUrlLen }

\* each.get('regex', [])
GetRegex(each) == IF each.has_regex THEN each.regex ELSE <<>>

\* the pattern built from a provider list
BuildRegex(svcs) ==
    Join("|", [i \in 1..Len(svcs) |-> Join("|", GetRegex(svcs[i]))])

\* the state of the registry after get_services() runs; st, content are the
\* response, used only when a request is made
ServicesAfter(st, content) ==
    IF services # <<>> THEN services
    ELSE IF st = "200" THEN content ELSE services

RegexAfter(st, content) ==
    IF services # <<>> THEN _regex
    ELSE IF st = "200" THEN Compile(BuildRegex(content)) ELSE _regex

\* get_services() makes a request
Fetches == services = <<>>

get_services ==
    /\ pc = "idle"
    /\ Fetches => requests < MaxRequests
    /\ \E st \in StatusCodes, content \in ServiceBodies :
          /\ services' = ServicesAfter(st, content)
          /\ _regex' = RegexAfter(st, content)
          /\ requests' = IF Fetches THEN requests + 1 ELSE requests
          /\ loaded' = (loaded \/ (Fetches /\ st = "200"))
          /\ sent' = IF Fetches THEN <<"services">> ELSE <<>>
          /\ resp' = IF Fetches THEN [status |-> st, content |-> content]
                     ELSE NoResponse
          /\ ret' = [kind |-> "services", v |-> ServicesAfter(st, content)]
    /\ op' = "get_services"
    /\ args' = NoArgs
    /\ exc' = NoExc
    /\ pc' = "returned"
    /\ UNCHANGED key

is_supported ==
    /\ pc = "idle"
    /\ \E url \in Urls :
          /\ args' = [url |-> url]
          /\ IF _regex.set
             THEN \* regex returns self._regex without calling get_services
                  /\ UNCHANGED <<services, _regex, requests, loaded>>
                  /\ sent' = <<>>
                  /\ resp' = NoResponse
                  /\ ret' = [kind |-> "bool", v |-> Match(_regex, url)]
                  /\ exc' = NoExc
             ELSE \* regex calls get_services first
                  /\ Fetches => requests < MaxRequests
                  /\ \E st \in StatusCodes, content \in ServiceBodies :
                        /\ services' = ServicesAfter(st, content)
                        /\ _regex' = RegexAfter(st, content)
                        /\ requests' = IF Fetches THEN requests + 1 ELSE requests
                        /\ loaded' = (loaded \/ (Fetches /\ st = "200"))
                        /\ sent' = IF Fetches THEN <<"services">> ELSE <<>>
                        /\ resp' = IF Fetches
                                   THEN [status |-> st, content |-> content]
                                   ELSE NoResponse
                        /\ IF RegexAfter(st, content).set
                           THEN /\ ret' = [kind |-> "bool",
                                           v |-> Match(RegexAfter(st, content), url)]
                                /\ exc' = NoExc
                           ELSE \* None has no attribute match
                                /\ ret' = NoReturn
                                /\ exc' = Raise("AttributeError", "match")
    /\ op' = "is_supported"
    /\ pc' = "returned"
    /\ UNCHANGED key

\* the caller takes the result and is ready for its next call
Return ==
    /\ pc = "returned"
    /\ pc' = "idle"
    /\ op' = ""
    /\ args' = NoArgs
    /\ sent' = <<>>
    /\ resp' = NoResponse
    /\ ret' = NoReturn
    /\ exc' = NoExc
    /\ UNCHANGED <<key, services, _regex, requests, loaded>>

----------------------------------------------------------------------------
(* Request dispatcher: values *)

MaxUrls == 20

\* the urls the dispatcher is called with
UrlPool == <<"http://a.example/1", "http://b.example/2", "http://c.example/3">>

Offsets == {0, 1}

\* a list of n urls, cycling through the pool from offset o
UrlList(n, o) == [i \in 1..n |-> UrlPool[((i + o - 1) % Len(UrlPool)) + 1]]

\* url_or_urls: None, a str (possibly empty) or a list of str (possibly empty)
Inputs ==
    { [kind |-> "none", s |-> "", l |-> <<>>] }
    \cup { [kind |-> "str", s |-> u, l |-> <<>>] :
              u \in {""} \cup { UrlPool[i] : i \in 1..Len(UrlPool) } }
    \cup { [kind |-> "list", s |-> "", l |-> UrlList(n, o)] :
              n \in 0..(MaxUrls + 1), o \in Offsets }

\* **kwargs: the key and raw options, each passed or not
Kwargs ==
    { [has_key |-> hk, key |-> k, has_raw |-> hr, raw |-> r] :
        hk \in BOOLEAN, k \in {None, "", "k1"}, hr \in BOOLEAN, r \in BOOLEAN }

OptionSets ==
    { kw \in Kwargs : (~kw.has_key => kw.key = None) /\ (~kw.has_raw => ~kw.raw) }

\* response bodies: the bytes are described by what they hold
\*   object  - a JSON object with a title n and, if msg # "", an error_message
\*   array   - a JSON array of n objects, the i-th with title i
\*   string  - the JSON string "ok"
\*   number  - a JSON number
\*   notjson - bytes that are not JSON
NoContent == [form |-> "none", n |-> 0, msg |-> ""]

Contents(n) ==
    { [form |-> "object", n |-> 7, msg |-> m] : m \in {"", "not found"} }
    \cup { [form |-> f, n |-> 0, msg |-> ""] : f \in {"string", "number", "notjson"} }
    \cup { [form |-> "array", n |-> k, msg |-> ""] :
              k \in { j \in (n - Slack)..(n + Slack) : j >= 0 } }

\* a dict: the keys it holds, in insertion order, and their values
EmptyDict ==
    [keys |-> <<>>, type |-> "", error |-> FALSE, error_code |-> 0,
     error_message |-> "", title |-> 0, raw |-> NoContent]

Has(d, k) == \E i \in 1..Len(d.keys) : d.keys[i] = k

\* JSON values
JObj(d) == [kind |-> "object", d |-> d, items |-> <<>>, s |-> <<>>]
JArr(items) == [kind |-> "array", d |-> EmptyDict, items |-> items, s |-> <<>>]
JStr(chars) == [kind |-> "string", d |-> EmptyDict, items |-> <<>>, s |-> chars]
JNum == [kind |-> "number", d |-> EmptyDict, items |-> <<>>, s |-> <<>>]

\* json.loads raises on the content
LoadsFails(content) == content.form = "notjson"

\* json.loads(content.decode('utf-8')), where it does not raise
Loads(content) ==
    CASE content.form = "object" ->
            JObj([EmptyDict EXCEPT
                    !.keys = IF content.msg = "" THEN <<"title">>
                             ELSE <<"title", "error_message">>,
                    !.title = content.n,
                    !.error_message = content.msg])
      [] content.form = "array" ->
            JArr([i \in 1..content.n |->
                    JObj([EmptyDict EXCEPT !.keys = <<"title">>, !.title = i])])
      [] content.form = "string" -> JStr(<<"o", "k">>)
      [] OTHER -> JNum

\* int(resp['status'])
StatusInt(st) ==
    CASE st = "200" -> 200
      [] st = "404" -> 404
      [] st = "500" -> 500

\* d.get("error_message")
GetErrorMessage(d) == IF Has(d, "error_message") THEN d.error_message ELSE None

\* the dict built for a response that is not 200
ErrorData(st, resp_body) ==
    [EmptyDict EXCEPT
        !.keys = <<"type", "error", "error_code", "error_message">>,
        !.type = "error",
        !.error = TRUE,
        !.error_code = StatusInt(st),
        !.error_message = GetErrorMessage(resp_body)]

\* data['raw'] = content on a dict
SetRaw(d, content) ==
    [d EXCEPT !.keys = IF Has(d, "raw") THEN d.keys ELSE Append(d.keys, "raw"),
              !.raw = content]

\* iter(data) raises
NotIterable(data) == data.kind = "number"

\* list(iter(data)): the keys of a dict, the items of a list, the characters
\* of a str
Iterate(data) ==
    CASE data.kind = "object" ->
            [i \in 1..Len(data.d.keys) |-> JStr(<<data.d.keys[i]>>)]
      [] data.kind = "array" -> data.items
      [] data.kind = "string" -> [i \in 1..Len(data.s) |-> JStr(<<data.s[i]>>)]
      [] OTHER -> <<>>

\* Url(data, method, url): the result holds its three arguments
Url(data, method, url) == [data |-> data, method |-> method, url |-> url]

\* as MapUrl, but the data are taken from the last to the first
MapUrl_Reversed(method, urls, datas) ==
    [i \in 1..Min(Len(urls), Len(datas)) |->
        Url(datas[Len(datas) - i + 1], method, urls[i])]

\* list(map(lambda url, data: Url(data, method, url), urls, datas)): map stops
\* at the end of the shorter argument
MapUrl(method, urls, datas) ==
    [i \in 1..Min(Len(urls), Len(datas)) |-> Url(datas[i], method, urls[i])]

----------------------------------------------------------------------------
(* Request dispatcher: _get *)

\* not url_or_urls
Empty(input) ==
    \/ input.kind = "none"
    \/ input.kind = "str" /\ input.s = ""
    \/ input.kind = "list" /\ Len(input.l) = 0

\* isinstance(url_or_urls, list)
Multi(input) == input.kind = "list"

\* kwargs.get('key', self.key)
GetKey(kw) == IF kw.has_key THEN kw.key ELSE key

\* kwargs.get('raw', False)
GetRaw(kw) == IF kw.has_raw THEN kw.raw ELSE FALSE

\* as Validate, but the key is checked first
Validate_KeyFirst(input, kw) ==
    IF ~Truthy(GetKey(kw)) THEN "no key"
    ELSE IF Empty(input) THEN "no url"
    ELSE IF Multi(input) /\ Len(input.l) > MaxUrls THEN "too many urls"
    ELSE ""

\* the checks made before the request; "" when they all pass
Validate(input, kw) ==
    IF Empty(input) THEN "no url"
    ELSE IF Multi(input) /\ Len(input.l) > MaxUrls THEN "too many urls"
    ELSE IF ~Truthy(GetKey(kw)) THEN "no key"
    ELSE ""

\* the request: its path and query, the options with key overwritten
Request(version, method, input, kw) ==
    [version |-> version,
     method |-> method,
     key |-> GetKey(kw),
     has_raw |-> kw.has_raw,
     raw |-> kw.raw,
     multi |-> Multi(input),
     url |-> input.s,
     urls |-> input.l]

\* the exception raised while the response is turned into data, or NoExc
DataExc(kw, st, content) ==
    IF st = "200"
    THEN IF LoadsFails(content) THEN Raise("JSONDecodeError", "loads")
         ELSE IF GetRaw(kw) /\ Loads(content).kind # "object"
              THEN Raise("TypeError", "item assignment")
         ELSE NoExc
    ELSE IF ~LoadsFails(content) /\ Loads(content).kind # "object"
         THEN Raise("AttributeError", "get")
         ELSE NoExc

\* data, where DataExc is NoExc
Data(kw, st, content) ==
    IF st = "200"
    THEN IF GetRaw(kw) THEN JObj(SetRaw(Loads(content).d, content))
         ELSE Loads(content)
    ELSE LET resp_body == IF LoadsFails(content) THEN EmptyDict
                          ELSE Loads(content).d
         IN  JObj(ErrorData(st, resp_body))

\* the exception raised by _get after the response arrived, or NoExc
ResponseExc(input, kw, st, content) ==
    IF DataExc(kw, st, content) # NoExc THEN DataExc(kw, st, content)
    ELSE IF Multi(input) /\ NotIterable(Data(kw, st, content))
         THEN Raise("TypeError", "not iterable")
    ELSE NoExc

\* the value returned by _get, where it raises nothing
Result(method, input, kw, st, content) ==
    IF Multi(input)
    THEN [kind |-> "list",
          v |-> MapUrl(method, input.l, Iterate(Data(kw, st, content)))]
    ELSE [kind |-> "url", v |-> Url(Data(kw, st, content), method, input.s)]

_get(version, method) ==
    /\ pc = "idle"
    /\ \E input \in Inputs, kw \in OptionSets :
          /\ args' = [url_or_urls |-> input, kwargs |-> kw]
          /\ IF Validate(input, kw) # ""
             THEN /\ exc' = Raise("ValueError", Validate(input, kw))
                  /\ sent' = <<>>
                  /\ resp' = NoResponse
                  /\ ret' = NoReturn
             ELSE \E st \in StatusCodes,
                     content \in Contents(IF Multi(input) THEN Len(input.l) ELSE 1) :
                     /\ sent' = <<Request(version, method, input, kw)>>
                     /\ resp' = [status |-> st, content |-> content]
                     /\ exc' = ResponseExc(input, kw, st, content)
                     /\ ret' = IF ResponseExc(input, kw, st, content) # NoExc
                               THEN NoReturn
                               ELSE Result(method, input, kw, st, content)
    /\ op' = method
    /\ pc' = "returned"
    /\ UNCHANGED <<key, services, _regex, requests, loaded>>

oembed == _get(1, "oembed")

preview == _get(1, "preview")

objectify == _get(2, "objectify")

extract == _get(1, "extract")

----------------------------------------------------------------------------
(* Construction *)

ClientKeys == {None, "", "kd"}

Init ==
    /\ key \in ClientKeys
    /\ services = <<>>
    /\ _regex = Unset
    /\ requests = 0
    /\ loaded = FALSE
    /\ pc = "idle"
    /\ op = ""
    /\ args = NoArgs
    /\ sent = <<>>
    /\ resp = NoResponse
    /\ ret = NoReturn
    /\ exc = NoExc

NextRegistry == get_services \/ is_supported \/ Return

SpecRegistry == Init /\ [][NextRegistry]_vars

NextDispatch == oembed \/ preview \/ objectify \/ extract \/ Return

SpecDispatch == Init /\ [][NextDispatch]_vars

----------------------------------------------------------------------------
(* Properties of the request dispatcher, checked under SpecDispatch *)

Methods == {"oembed", "preview", "objectify", "extract"}

\* a call of one of the four operations has returned or raised
Called == pc = "returned" /\ op \in Methods

\* that call made its request and received a response
Responded == Called /\ Len(sent) = 1

\* the call was given a list of 1..MaxUrls urls
Batched ==
    /\ Multi(args.url_or_urls)
    /\ Len(args.url_or_urls.l) >= 1
    /\ Len(args.url_or_urls.l) <= MaxUrls

\* the call returned one result per url of the list, in order
OnePerUrl ==
    /\ exc = NoExc
    /\ ret.kind = "list"
    /\ Len(ret.v) = Len(args.url_or_urls.l)
    /\ \A i \in 1..Len(ret.v) : ret.v[i].url = args.url_or_urls.l[i]

\* C1: a batched call of N urls that gets a response, 200 or not and with a
\* JSON array of any length, returns exactly N results, in input order, the
\* i-th for the i-th url.
C1_BatchReturnsOnePerUrl ==
    (Responded /\ Batched /\ resp.content.form = "array")
    => OnePerUrl

\* C2: a batched call of N urls without raw whose response is 200 with a JSON
\* array of N elements returns N results: the i-th holds the i-th url, the
\* i-th element of the array and the name of the called method.
C2_BatchPairsPositionally ==
    (Responded /\ Batched
       /\ ~(args.kwargs.has_raw /\ args.kwargs.raw)
       /\ resp.status = "200"
       /\ resp.content.form = "array"
       /\ resp.content.n = Len(args.url_or_urls.l))
    => /\ OnePerUrl
       /\ \A i \in 1..Len(ret.v) :
             /\ ret.v[i].data.kind = "object"
             /\ ret.v[i].data.d.keys = <<"title">>
             /\ ret.v[i].data.d.title = i
             /\ ret.v[i].method = op

C2_FullBatchPaired ==
    /\ Responded
    /\ Len(args.url_or_urls.l) = MaxUrls
    /\ ~args.kwargs.has_raw
    /\ resp.status = "200"
    /\ resp.content.form = "array"
    /\ resp.content.n = MaxUrls
    /\ ret.kind = "list"
    /\ Len(ret.v) = MaxUrls
    /\ ret.v[MaxUrls].data.d.title = MaxUrls

\* neither the client nor the call has a key
NoKeyPresent ==
    /\ ~Truthy(key)
    /\ ~(args.kwargs.has_key /\ Truthy(args.kwargs.key))

TooMany == Multi(args.url_or_urls) /\ Len(args.url_or_urls.l) > MaxUrls

\* C3: a call with an empty input, with a list of more than 20 urls or
\* without a key raises ValueError and makes no request; the empty input is
\* reported first, then the long list, then the missing key.
C3_InvalidArgumentBeforeRequest ==
    Called =>
       /\ (Empty(args.url_or_urls) \/ TooMany \/ NoKeyPresent)
            => (exc.type = "ValueError" /\ Len(sent) = 0 /\ ret = NoReturn)
       /\ Empty(args.url_or_urls) => exc.msg = "no url"
       /\ TooMany => exc.msg = "too many urls"
       /\ (NoKeyPresent /\ ~Empty(args.url_or_urls) /\ ~TooMany)
            => exc.msg = "no key"

C3_TooManyReportedBeforeKey ==
    /\ Called
    /\ TooMany
    /\ NoKeyPresent
    /\ exc = Raise("ValueError", "too many urls")
    /\ Len(sent) = 0

\* the error_message of the response body, None when it has none
BodyMessage ==
    IF resp.content.form = "object" /\ resp.content.msg # ""
    THEN resp.content.msg ELSE None

\* C4: a single-url call whose response is not 200 returns, for every body,
\* a result whose data is the error mapping with the status as error_code
\* and the body's error_message, if any.
C4_Non200YieldsErrorRecord ==
    (Responded /\ ~Multi(args.url_or_urls) /\ resp.status # "200")
    => /\ exc = NoExc
       /\ ret.kind = "url"
       /\ ret.v.url = args.url_or_urls.s
       /\ ret.v.data.kind = "object"
       /\ ret.v.data.d.keys = <<"type", "error", "error_code", "error_message">>
       /\ ret.v.data.d.type = "error"
       /\ ret.v.data.d.error = TRUE
       /\ ret.v.data.d.error_code = (IF resp.status = "404" THEN 404 ELSE 500)
       /\ ret.v.data.d.error_message = BodyMessage

\* C8: with raw true and a 200 response, a single-url call returns the
\* parsed body with the raw bytes attached, and a batched call of N urls
\* with an array of N elements returns N results, paired by position, with
\* no raw bytes and without raising.
C8_RawOnlyOnSingle ==
    (Responded /\ args.kwargs.has_raw /\ args.kwargs.raw /\ resp.status = "200")
    => /\ (~Multi(args.url_or_urls) /\ resp.content.form = "object")
            => /\ exc = NoExc
               /\ ret.kind = "url"
               /\ Has(ret.v.data.d, "raw")
               /\ ret.v.data.d.raw = resp.content
               /\ ret.v.data.d.title = resp.content.n
       /\ (Batched /\ resp.content.form = "array"
             /\ resp.content.n = Len(args.url_or_urls.l))
            => /\ OnePerUrl
               /\ \A i \in 1..Len(ret.v) :
                     /\ ~Has(ret.v[i].data.d, "raw")
                     /\ ret.v[i].data.d.title = i

\* the key of the call: the key option when one is supplied, else self.key
ResolvedKey ==
    IF args.kwargs.has_key /\ Truthy(args.kwargs.key)
    THEN args.kwargs.key ELSE key

\* C9: the key sent in the query is the key option when one is supplied and
\* the client's key otherwise; a call with a non-empty input of at most 20
\* urls raises 'no key' exactly when neither key is present, and never while
\* the client has a key.
C9_KeyResolution ==
    (Called /\ ~Empty(args.url_or_urls) /\ ~TooMany)
    => /\ Len(sent) = 1 => sent[1].key = ResolvedKey
       /\ (exc = Raise("ValueError", "no key")) <=> NoKeyPresent
       /\ Truthy(key) => exc # Raise("ValueError", "no key")

----------------------------------------------------------------------------
(* Properties of the service registry, checked under SpecRegistry *)

\* the step is a call of get_services
CallsGetServices == pc = "idle" /\ op' = "get_services"

\* the step is a call of is_supported
CallsIsSupported == pc = "idle" /\ op' = "is_supported"

\* C5: once a get_services call has received a 200 response, whatever its
\* body, every later get_services call makes no request and returns the
\* cached list.
C5_NoRequestAfter200 ==
    [][ (loaded /\ CallsGetServices)
        => (requests' = requests /\ Len(sent') = 0
            /\ services' = services /\ ret'.v = services) ]_vars

\* some pattern of some cached provider matches somewhere in url
SomePatternOccurs(url) ==
    \E i \in 1..Len(services) :
      \E j \in 1..Len(GetRegex(services[i])) :
        \E at \in 1..(Len(url) + 1) :
            MatchesAt(GetRegex(services[i])[j], url, at)

\* C6: once the provider data is loaded, is_supported(url) is true if and
\* only if some pattern of some loaded provider matches at some position of
\* url; it is false when none does, also with providers that have no
\* patterns and with an empty provider list.
C6_SupportedIffSomePatternOccurs ==
    (pc = "returned" /\ op = "is_supported" /\ loaded)
    => /\ exc = NoExc
       /\ ret.kind = "bool"
       /\ ret.v = SomePatternOccurs(args.url)

\* the call made a request and the response was not 200
FetchFailed == Len(sent') = 1 /\ resp'.status # "200"

\* C7: a get_services call whose request is answered with a status other
\* than 200 does not raise, returns the list cached before, leaves the list
\* and the pattern as they were, the pattern unset, and leaves the registry
\* such that the next call makes the request again.
C7_FailedFetchChangesNothing ==
    [][ (CallsGetServices /\ FetchFailed)
        => /\ exc' = NoExc
           /\ ret'.v = services
           /\ services' = services
           /\ _regex' = _regex
           /\ _regex' = Unset
           /\ services' = <<>> ]_vars

\* C10: in every state of the registry is_supported(url) makes at most one
\* request, only when the pattern is unset, and returns a boolean.
C10_IsSupportedReturnsBoolean ==
    [][ CallsIsSupported
        => /\ Len(sent') <= 1
           /\ (Len(sent') = 1 => ~_regex.set)
           /\ exc' = NoExc
           /\ ret'.kind = "bool" ]_vars

====
